---- MODULE Spec2Model ----
(***************************************************************************)
(* Model of streamlit-keep.py: the StreamlitAppWaker class (one browser    *)
(* session driven through navigate / find and click / verify) under the    *)
(* run_daily_at_midnight scheduling loop.                                  *)
(*                                                                         *)
(* The program is one sequential thread; pc is its position.  The remote   *)
(* page and the webdriver's faults are the environment: every step that    *)
(* observes the page draws what it meets there, and a fault, from small    *)
(* sets; probe and ver record what was met.                                *)
(* Times are seconds on the Asia/Shanghai wall clock (a fixed UTC offset). *)
(* driver.quit() and switch_to.default_content() are taken not to raise    *)
(* (ChromiumDriver.quit swallows its own exceptions).                      *)
(***************************************************************************)
EXTENDS Integers, Sequences, FiniteSets

VARIABLES
    app_url,        \* StreamlitAppWaker.APP_URL, fixed when the class is defined
    pc,             \* position of the single thread of control
    clock,          \* wall clock, seconds
    now,            \* run_daily_at_midnight: local now
    next_run,       \* run_daily_at_midnight: local next_run
    wait_seconds,   \* run_daily_at_midnight: local wait_seconds
    driver,         \* self.driver of the current waker: "None" or "Chrome"
    sessions,       \* number of browser sessions currently open
    opened,         \* sessions opened by the current attempt
    released,       \* driver.quit() calls of the current attempt
    context,        \* browsing context the driver is switched to
    click_success,  \* wakeup_app: local click_success
    clicks,         \* contexts in which button.click() was issued, this attempt
    probe,          \* what each find_and_click_button call met, this attempt
    steps,          \* the steps the current attempt has executed, in order
    ver,            \* what the last is_app_woken_up call met
    woken,          \* return value of the last is_app_woken_up call
    result,         \* (success, result) returned by run()
    logged,         \* the last outcome main() logged
    setup           \* how setup_driver of the current attempt ended

vars == <<app_url, pc, clock, now, next_run, wait_seconds, driver, sessions,
          opened, released, context, click_success, clicks, probe,
          steps, ver, woken, result, logged, setup>>

----------------------------------------------------------------------------
(* Program constants *)

INITIAL_WAIT_TIME == 10
POST_CLICK_WAIT_TIME == 20
ELEMENT_WAIT == 5
SecondsPerDay == 86400

(* Bounds of the model *)

MaxDays == 2        \* the loop is followed up to this many midnights
MaxOversleep == 1   \* time.sleep may return this many seconds late
StartStep == 3600   \* the process is started at multiples of this many seconds

DEFAULT_URL == "https://python-xray-argo-h6vbhnptbecuyjjyhtuaqr.streamlit.app"

\* Clock readings at which the process may be started: midnight, every
\* StartStep seconds after it, one second past it and one second before it.
StartTimes ==
    {h * StartStep : h \in 0..23} \cup {1, SecondsPerDay - 1}

----------------------------------------------------------------------------
(* The environment: the page and the webdriver's faults *)

\* The wake-up button in one browsing context: not in the DOM, in the DOM
\* but not clickable (hidden or disabled), or clickable.
PromptStates == {"absent", "inert", "clickable"}
FrameStates == {"noframe"} \cup PromptStates

\* Faults of one find_and_click_button call: the wait raises something other
\* than TimeoutException; the button stops being displayed or enabled after
\* the wait returned it; button.click() raises.
ClickFaults(prompt) ==
    IF prompt = "clickable"
    THEN {"none", "wait_error", "hidden", "click_error"}
    ELSE {"none", "wait_error"}

NoProbe == [prompt |-> "unprobed", fault |-> "none"]
NoVer == [main |-> "unchecked", frame |-> "unchecked"]
NoResult == [success |-> FALSE, msg |-> "none"]

----------------------------------------------------------------------------
(* Pure parts of the code *)

\* datetime.replace(hour=0, minute=0, second=0, microsecond=0)
Midnight(t) == t - (t % SecondsPerDay)

\* (now + timedelta(days=1)).replace(hour=0, ...)
NextRun_AtOrAfter(t) ==
    IF t % SecondsPerDay = 0 THEN t ELSE Midnight(t) + SecondsPerDay
NextRun(t) == Midnight(t + SecondsPerDay)

\* find_and_click_button: what the call does with the button in the current
\* context under the given fault.
FindAndClick_ClickInert(prompt, fault) ==
    IF fault = "wait_error" THEN "error"
    ELSE IF prompt = "absent" THEN "timeout"
    ELSE IF fault = "hidden" THEN "not_interactable"
    ELSE IF fault = "click_error" THEN "error"
    ELSE "clicked"
FindAndClick(prompt, fault) ==
    IF fault = "wait_error" THEN "error"
    ELSE IF prompt # "clickable" THEN "timeout"
    ELSE IF fault = "hidden" THEN "not_interactable"
    ELSE IF fault = "click_error" THEN "error"
    ELSE "clicked"

\* EC.presence_of_element_located within the wait
Present(prompt) == prompt \in {"inert", "clickable"}

\* What a presence wait meets: the recorded observation
WaitObs(prompt, fault) ==
    IF fault = "wait_error" THEN "error"
    ELSE IF Present(prompt) THEN "present"
    ELSE "absent"

\* What find_element(iframe) followed by switch_to.frame meets
LookupObs(frame, fault) ==
    IF fault = "lookup_error" THEN "error"
    ELSE IF frame = "noframe" THEN "noframe"
    ELSE IF fault = "switch_error" THEN "error"
    ELSE "unchecked"

\* is_app_woken_up, first try block: "raise" (an exception other than
\* TimeoutException leaves the function), "false" (return False) or
\* "continue" (fall through to the iframe check).
VerifyMainOutcome_IgnoresMain(prompt, fault) ==
    IF fault = "wait_error" THEN "raise" ELSE "continue"
VerifyMainOutcome(prompt, fault) ==
    IF fault = "wait_error" THEN "raise"
    ELSE IF Present(prompt) THEN "false"
    ELSE "continue"

\* is_app_woken_up, find_element + switch_to.frame: "true", "false" or
\* "switched" (now inside the iframe).
VerifyLookupOutcome_ErrorIsAwake(frame, fault) ==
    IF fault # "none" THEN "true"
    ELSE IF frame = "noframe" THEN "true"
    ELSE "switched"
VerifyLookupOutcome(frame, fault) ==
    IF fault = "lookup_error" THEN "false"
    ELSE IF frame = "noframe" THEN "true"
    ELSE IF fault = "switch_error" THEN "false"
    ELSE "switched"

\* is_app_woken_up, the wait inside the iframe
VerifyFrameOutcome(prompt, fault) ==
    IF fault = "wait_error" THEN "false"
    ELSE IF Present(prompt) THEN "false"
    ELSE "true"

\* wakeup_app: what it does with the return value w of is_app_woken_up, on
\* the no-click path and on the post-click path: return (True, msg) or raise
\* Exception(msg).  run() embeds the text of a raised exception in its
\* failure message.
WakeupVerdict_NoDirectCheck(clicked, w) ==
    IF ~clicked
    THEN [raise |-> TRUE, msg |-> "button_not_found_or_not_clickable"]
    ELSE IF w = "true"
         THEN [raise |-> FALSE, msg |-> "woken_up"]
         ELSE [raise |-> TRUE, msg |-> "button_still_present"]
WakeupVerdict_IgnoresCheck(clicked, w) ==
    IF ~clicked
    THEN [raise |-> FALSE, msg |-> "already_awake"]
    ELSE IF w = "true"
         THEN [raise |-> FALSE, msg |-> "woken_up"]
         ELSE [raise |-> TRUE, msg |-> "button_still_present"]
WakeupVerdict_ClickIsSuccess(clicked, w) ==
    IF ~clicked
    THEN IF w = "true"
         THEN [raise |-> FALSE, msg |-> "already_awake"]
         ELSE [raise |-> TRUE, msg |-> "button_not_found_or_not_clickable"]
    ELSE [raise |-> FALSE, msg |-> "woken_up"]
WakeupVerdict(clicked, w) ==
    IF ~clicked
    THEN IF w = "true"
         THEN [raise |-> FALSE, msg |-> "already_awake"]
         ELSE [raise |-> TRUE, msg |-> "button_not_found_or_not_clickable"]
    ELSE IF w = "true"
         THEN [raise |-> FALSE, msg |-> "woken_up"]
         ELSE [raise |-> TRUE, msg |-> "button_still_present"]

\* setup_driver: the driver field, whether a browser was started and whether
\* the exception is re-raised.
SetupDriver(outcome) ==
    CASE outcome = "chrome_failed" ->
            [driver |-> "None", started |-> FALSE, raised |-> TRUE]
      [] outcome = "script_failed" ->
            [driver |-> "Chrome", started |-> TRUE, raised |-> TRUE]
      [] OTHER ->
            [driver |-> "Chrome", started |-> TRUE, raised |-> FALSE]
SetupOutcomes == {"ok", "chrome_failed", "script_failed"}

----------------------------------------------------------------------------
(* Initial state: the module is loaded, run_daily_at_midnight is entered *)

\* run_daily_at_midnight: where the thread starts, at the top of the loop
\* body (the clock reading), not at the call of main()
LoopEntry_AttemptFirst == "main"
LoopEntry == "loop"

Init ==
    /\ app_url \in {"", DEFAULT_URL}
    /\ pc = LoopEntry
    /\ clock \in StartTimes
    /\ now = 0
    /\ next_run = 0
    /\ wait_seconds = 0
    /\ driver = "None"
    /\ sessions = 0
    /\ opened = 0
    /\ released = 0
    /\ context = "main"
    /\ click_success = FALSE
    /\ clicks = <<>>
    /\ probe = [main |-> NoProbe, frame |-> NoProbe]
    /\ steps = <<>>
    /\ ver = NoVer
    /\ woken = "none"
    /\ result = NoResult
    /\ logged = NoResult
    /\ setup = "none"

schedVars == <<now, next_run, wait_seconds>>
sessionVars == <<driver, sessions, opened, released, setup>>
findVars == <<click_success, clicks, probe>>
verVars == <<ver, woken>>

----------------------------------------------------------------------------
(* run(): what happens to an exception raised inside wakeup_app, and to a  *)
(* normal return                                                           *)

RunExcept_Propagates(e) ==
    /\ result' = result
    /\ pc' = "terminated"
RunExcept(e) ==
    /\ result' = [success |-> FALSE, msg |-> e]
    /\ pc' = "finally"

RunReturn(msg) ==
    /\ result' = [success |-> TRUE, msg |-> msg]
    /\ pc' = "finally"

\* The record of the steps of the current attempt
Step(name) == steps' = Append(steps, name)

----------------------------------------------------------------------------
(* Scheduler *)

ComputeNextRun ==
    /\ pc = "loop"
    /\ clock < MaxDays * SecondsPerDay
    /\ now' = clock
    /\ next_run' = NextRun(clock)
    /\ wait_seconds' = next_run' - now'
    /\ pc' = "sleep"
    /\ UNCHANGED <<app_url, clock, sessionVars, context, findVars,
                   steps, verVars, result, logged>>

\* time.sleep(wait_seconds): raises ValueError on a negative length
IdleSleep ==
    /\ pc = "sleep"
    /\ IF wait_seconds < 0
       THEN /\ pc' = "terminated"
            /\ clock' = clock
       ELSE /\ \E over \in 0..MaxOversleep :
                 clock' = clock + wait_seconds + over
            /\ pc' = "main"
    /\ UNCHANGED <<app_url, schedVars, sessionVars, context, findVars,
                   steps, verVars, result, logged>>

\* main() up to and including StreamlitAppWaker(): a new waker, whose
\* constructor runs setup_driver
Main ==
    /\ pc = "main"
    /\ \E outcome \in SetupOutcomes :
         LET s == SetupDriver(outcome) IN
           /\ setup' = outcome
           /\ driver' = s.driver
           /\ sessions' = IF s.started THEN sessions + 1 ELSE sessions
           /\ opened' = IF s.started THEN 1 ELSE 0
           /\ pc' = IF s.raised THEN "terminated" ELSE "wakeup"
    /\ Step("setup_driver")
    /\ UNCHANGED <<app_url, clock, schedVars, released, context, findVars,
                   verVars, result, logged>>

----------------------------------------------------------------------------
(* Waker: wakeup_app under run() *)

\* wakeup_app, the URL check, driver.get and the initial settle wait
Navigate ==
    /\ pc = "wakeup"
    /\ IF app_url = ""
       THEN /\ RunExcept("url_not_configured")
            /\ Step("check_url")
            /\ clock' = clock
       ELSE \E loaded \in BOOLEAN :
              /\ Step("get")
              /\ IF loaded
                 THEN /\ clock' = clock + INITIAL_WAIT_TIME
                      /\ pc' = "find_main"
                      /\ result' = result
                 ELSE /\ RunExcept("navigation_error")
                      /\ clock' = clock
    /\ UNCHANGED <<app_url, schedVars, sessionVars, context, findVars,
                   verVars, logged>>

\* One find_and_click_button call in the current context, on prompt state
\* `prompt` under fault `fault`; `where` names the context.
FindAndClickButton(where, prompt, fault) ==
    LET r == FindAndClick(prompt, fault) IN
      /\ click_success' = (r = "clicked")
      /\ clicks' = IF r = "clicked" THEN Append(clicks, where) ELSE clicks
      /\ probe' = [probe EXCEPT ![where] = [prompt |-> prompt, fault |-> fault]]
      /\ clock' = IF r = "timeout" THEN clock + ELEMENT_WAIT ELSE clock

\* wakeup_app: where control goes after the search of the main document
AfterFindMain_AlwaysFallback(clicked) == "iframe"
AfterFindMain_SkipSettle(clicked) == IF clicked THEN "verify_main" ELSE "iframe"
AfterFindMain(clicked) == IF clicked THEN "settle" ELSE "iframe"

\* wakeup_app: click_success = self.find_and_click_button("主页面")
FindMain ==
    /\ pc = "find_main"
    /\ \E prompt \in PromptStates :
         \E f \in ClickFaults(prompt) : FindAndClickButton("main", prompt, f)
    /\ pc' = AfterFindMain(click_success')
    /\ Step("find_main")
    /\ UNCHANGED <<app_url, schedVars, sessionVars, context, verVars,
                   result, logged>>

\* wakeup_app: find_element(iframe) and switch_to.frame; any exception is
\* logged and the fallback is left
EnterFrame ==
    /\ pc = "iframe"
    /\ \E frame \in {"noframe", "frame"},
          f \in {"none", "lookup_error", "switch_error"} :
         IF frame = "frame" /\ f = "none"
         THEN /\ context' = "frame"
              /\ pc' = "find_frame"
              /\ Step("enter_frame")
         ELSE /\ context' = context
              /\ pc' = "verify_main"
              /\ Step("no_frame")
    /\ UNCHANGED <<app_url, clock, schedVars, sessionVars, findVars, verVars,
                   result, logged>>

\* wakeup_app: click_success = self.find_and_click_button("iframe内部")
FindInFrame ==
    /\ pc = "find_frame"
    /\ \E prompt \in PromptStates :
         \E f \in ClickFaults(prompt) : FindAndClickButton("frame", prompt, f)
    /\ pc' = "leave_frame"
    /\ Step("find_frame")
    /\ UNCHANGED <<app_url, schedVars, sessionVars, context, verVars,
                   result, logged>>

\* wakeup_app: the context after the search inside the iframe
LeaveContext_Stay(c) == c
LeaveContext(c) == "main"

\* wakeup_app: self.driver.switch_to.default_content() after the search
LeaveFrame ==
    /\ pc = "leave_frame"
    /\ context' = LeaveContext(context)
    /\ pc' = IF click_success THEN "settle" ELSE "verify_main"
    /\ Step("leave_frame")
    /\ UNCHANGED <<app_url, clock, schedVars, sessionVars, findVars,
                   verVars, result, logged>>

\* wakeup_app: time.sleep(POST_CLICK_WAIT_TIME)
PostClickWait ==
    /\ pc = "settle"
    /\ clock' = clock + POST_CLICK_WAIT_TIME
    /\ pc' = "verify_main"
    /\ Step("settle")
    /\ UNCHANGED <<app_url, schedVars, sessionVars, context, findVars,
                   verVars, result, logged>>

\* is_app_woken_up: default_content() and the wait in the main document
VerifyMain ==
    /\ pc = "verify_main"
    /\ context' = "main"
    /\ Step("verify_main")
    /\ \E prompt \in PromptStates, f \in {"none", "wait_error"} :
         LET o == VerifyMainOutcome(prompt, f) IN
           /\ ver' = [main |-> WaitObs(prompt, f), frame |-> "unchecked"]
           /\ CASE o = "raise" ->
                     /\ woken' = "raised"
                     /\ clock' = clock
                     /\ RunExcept("webdriver_error")
                [] o = "false" ->
                     /\ woken' = "false"
                     /\ clock' = clock
                     /\ pc' = "verdict"
                     /\ result' = result
                [] OTHER ->
                     /\ woken' = "none"
                     /\ clock' = clock + ELEMENT_WAIT
                     /\ pc' = "verify_iframe"
                     /\ result' = result
    /\ UNCHANGED <<app_url, schedVars, sessionVars, findVars, logged>>

\* is_app_woken_up: find_element(iframe) and switch_to.frame
VerifyEnterFrame ==
    /\ pc = "verify_iframe"
    /\ Step("verify_iframe")
    /\ \E frame \in {"noframe", "frame"},
          f \in {"none", "lookup_error", "switch_error"} :
         LET o == VerifyLookupOutcome(frame, f) IN
           /\ ver' = [ver EXCEPT !.frame = LookupObs(frame, f)]
           /\ CASE o = "switched" ->
                     /\ context' = "frame"
                     /\ woken' = woken
                     /\ pc' = "verify_frame"
                [] o = "true" ->
                     /\ context' = "main"
                     /\ woken' = "true"
                     /\ pc' = "verdict"
                [] OTHER ->
                     /\ context' = "main"
                     /\ woken' = "false"
                     /\ pc' = "verdict"
    /\ UNCHANGED <<app_url, clock, schedVars, sessionVars, findVars, result,
                   logged>>

\* is_app_woken_up: the context it leaves after the wait inside the iframe
\* met obs; each of the three exits calls switch_to.default_content()
VerifyExitContext_LeaksOnError(obs) ==
    IF obs = "error" THEN "frame" ELSE "main"
VerifyExitContext(obs) == "main"

\* is_app_woken_up: the wait inside the iframe and the return
VerifyFrame ==
    /\ pc = "verify_frame"
    /\ Step("verify_frame")
    /\ \E prompt \in PromptStates, f \in {"none", "wait_error"} :
         /\ context' = VerifyExitContext(WaitObs(prompt, f))
         /\ woken' = VerifyFrameOutcome(prompt, f)
         /\ ver' = [ver EXCEPT !.frame = WaitObs(prompt, f)]
         /\ clock' = IF f = "none" /\ ~Present(prompt)
                     THEN clock + ELEMENT_WAIT ELSE clock
    /\ pc' = "verdict"
    /\ UNCHANGED <<app_url, schedVars, sessionVars, findVars, result, logged>>

\* wakeup_app: the return or raise that follows is_app_woken_up
Verdict ==
    /\ pc = "verdict"
    /\ Step("verdict")
    /\ LET v == WakeupVerdict(click_success, woken) IN
         IF v.raise THEN RunExcept(v.msg) ELSE RunReturn(v.msg)
    /\ UNCHANGED <<app_url, clock, schedVars, sessionVars, context,
                   findVars, verVars, logged>>

\* run(): the finally clause
Finally ==
    /\ pc = "finally"
    /\ IF driver # "None"
       THEN /\ sessions' = sessions - 1
            /\ released' = released + 1
       ELSE UNCHANGED <<sessions, released>>
    /\ pc' = "log"
    /\ Step("finally")
    /\ UNCHANGED <<app_url, clock, schedVars, driver, opened, setup, context,
                   findVars, verVars, result, logged>>

\* run_daily_at_midnight: where control goes when main() returns, back to
\* the top of `while True`
AfterMain_RunOnce == "terminated"
AfterMain == "loop"

\* main(): logger.info(result), and the return to the loop; the waker and
\* the locals of the attempt go out of scope, the open sessions stay
LogResult ==
    /\ pc = "log"
    /\ logged' = result
    /\ pc' = AfterMain
    /\ driver' = "None"
    /\ opened' = 0
    /\ released' = 0
    /\ setup' = "none"
    /\ context' = "main"
    /\ click_success' = FALSE
    /\ clicks' = <<>>
    /\ probe' = [main |-> NoProbe, frame |-> NoProbe]
    /\ steps' = <<>>
    /\ ver' = NoVer
    /\ woken' = "none"
    /\ result' = NoResult
    /\ UNCHANGED <<app_url, clock, schedVars, sessions>>

Next ==
    \/ ComputeNextRun
    \/ IdleSleep
    \/ Main
    \/ Navigate
    \/ FindMain
    \/ EnterFrame
    \/ FindInFrame
    \/ LeaveFrame
    \/ PostClickWait
    \/ VerifyMain
    \/ VerifyEnterFrame
    \/ VerifyFrame
    \/ Verdict
    \/ Finally
    \/ LogResult

Spec == Init /\ [][Next]_vars

----------------------------------------------------------------------------
(* The loop followed for ever.  The code uses the calendar date only in     *)
(* next_run - now, so the clock is kept as the time since the last midnight *)
(* before the reading: the loop then runs through finitely many states.     *)
(* The thread is the only one and, once every blocking call returns, always *)
(* takes its next step: weak fairness of the next-state relation.           *)

ComputeNextRunAnyDay ==
    /\ pc = "loop"
    /\ clock' = clock % SecondsPerDay
    /\ now' = clock'
    /\ next_run' = NextRun(now')
    /\ wait_seconds' = next_run' - now'
    /\ pc' = "sleep"
    /\ UNCHANGED <<app_url, sessionVars, context, findVars,
                   steps, verVars, result, logged>>

LiveNext ==
    \/ ComputeNextRunAnyDay
    \/ IdleSleep
    \/ Main
    \/ Navigate
    \/ FindMain
    \/ EnterFrame
    \/ FindInFrame
    \/ LeaveFrame
    \/ PostClickWait
    \/ VerifyMain
    \/ VerifyEnterFrame
    \/ VerifyFrame
    \/ Verdict
    \/ Finally
    \/ LogResult

LiveSpec == Init /\ [][LiveNext]_vars /\ WF_vars(LiveNext)

----------------------------------------------------------------------------
(* Properties *)

\* The current attempt is over: run() has returned, or the constructor has
\* raised out of main().
AttemptEnded ==
    \/ pc = "log"
    \/ pc = "terminated" /\ steps # <<>>

InSteps(name) == \E i \in 1..Len(steps) : steps[i] = name

Clickable == [prompt |-> "clickable", fault |-> "none"]

\* C1: once an attempt with a non-empty URL has ended, a session it opened
\* has been released exactly once, on every path including an exception
\* anywhere in the workflow.
C1_SessionReleasedExactlyOnce ==
    (AttemptEnded /\ app_url # "" /\ opened = 1) => released = 1

\* C2: run() reports success only if the last verification met the prompt
\* absent in the main document and absent in the first iframe, or no iframe.
C2_SuccessOnlyIfVerifiedAbsent ==
    result.success =>
        /\ ver.main = "absent"
        /\ ver.frame \in {"absent", "noframe"}

C2_Witness ==
    /\ pc = "finally"
    /\ result.success
    /\ ver = [main |-> "absent", frame |-> "absent"]

\* C3: with an empty URL the attempt opens no browser session, performs no
\* navigation and ends with the configuration error.
C3_EmptyUrlOpensNoSession ==
    app_url = "" =>
        /\ opened = 0
        /\ sessions = 0
        /\ ~InSteps("get")
        /\ pc = "log" =>
              result = [success |-> FALSE, msg |-> "url_not_configured"]

\* C4: no attempt that ends with an outcome ends the loop: run() always
\* reaches its finally clause with an outcome, main() logs that outcome and
\* the loop computes the next run and sleeps again; the process terminates
\* only out of setup_driver.
C4_LoopSurvivesFailedAttempts ==
    [][ /\ pc = "finally" => (pc' = "log" /\ result' = result /\ result # NoResult)
        /\ pc = "log" => (pc' = "loop" /\ logged' = result)
        /\ pc = "loop" => pc' = "sleep"
        /\ pc = "sleep" => pc' = "main"
        /\ pc' = "terminated" =>
              (pc = "main" /\ setup' \in {"chrome_failed", "script_failed"})
      ]_vars

C4_Witness ==
    /\ pc = "sleep"
    /\ logged = [success |-> FALSE, msg |-> "button_still_present"]
    /\ now > SecondsPerDay

\* C5: the computed next run is the first midnight strictly after now, so
\* the sleep is longer than 0 and at most 24 hours; at exactly 00:00:00 the
\* next run is the midnight of the following day.
C5_NextRunIsNextMidnight ==
    pc = "sleep" =>
        /\ next_run % SecondsPerDay = 0
        /\ next_run > now
        /\ next_run - SecondsPerDay <= now
        /\ wait_seconds = next_run - now
        /\ wait_seconds > 0
        /\ wait_seconds <= SecondsPerDay
        /\ now % SecondsPerDay = 0 => next_run = now + SecondsPerDay

C5_Witness ==
    /\ pc = "sleep"
    /\ now = 0
    /\ wait_seconds = SecondsPerDay

\* C6: at most one browser session is open, and none while the scheduler
\* sleeps or after the process has terminated, failures of either step of
\* setup_driver included.
C6_OneSessionNoneWhenIdle ==
    /\ sessions <= 1
    /\ pc \in {"sleep", "terminated"} => sessions = 0

\* C7: if the main document holds a clickable prompt, it is clicked there
\* and the attempt goes on to the settle wait and the verification without
\* entering the iframe fallback.
C7_MainClickSkipsFrameFallback ==
    probe.main = Clickable =>
        /\ click_success
        /\ clicks = <<"main">>
        /\ probe.frame = NoProbe
        /\ ~InSteps("enter_frame") /\ ~InSteps("no_frame")
        /\ pc \in {"settle", "verify_main", "verify_iframe", "verify_frame",
                    "verdict", "finally", "log"}
        /\ pc \in {"settle", "verify_main"} => context = "main"
        /\ Len(steps) >= 4 => steps[4] = "settle"
        /\ Len(steps) >= 5 => steps[5] = "verify_main"
        /\ pc \in {"finally", "log"} => InSteps("verify_main")

C7_Witness ==
    /\ probe.main = Clickable
    /\ pc = "verdict"
    /\ clicks = <<"main">>

\* C8: a prompt that is not clickable in the main document and clickable in
\* the first iframe is clicked in the iframe; and once the fallback branch
\* is over the context is the main document, whatever the search met.
C8_FrameClickAndContextRestored ==
    /\ probe.frame = Clickable =>
          (click_success /\ clicks = <<"frame">> /\ probe.main # Clickable)
    /\ ( /\ InSteps("enter_frame") \/ InSteps("no_frame")
         /\ pc \in {"settle", "verify_main"} ) => context = "main"

C8_Witness ==
    /\ probe.frame = Clickable
    /\ clicks = <<"frame">>
    /\ pc = "settle"
    /\ context = "main"

\* C9: with no click in either context and a verification that met the
\* prompt absent in both, run() returns success with the already-awake
\* message.
C9_NoClickVerifiedAwake ==
    ( /\ pc \in {"finally", "log"}
      /\ clicks = <<>>
      /\ ver.main = "absent"
      /\ ver.frame \in {"absent", "noframe"} )
    => result = [success |-> TRUE, msg |-> "already_awake"]

C9_Witness ==
    /\ pc = "log"
    /\ probe.main.prompt = "absent"
    /\ probe.frame.prompt = "absent"
    /\ ver = [main |-> "absent", frame |-> "absent"]
    /\ result.msg = "already_awake"

\* C10: with no click in either context and a verification that met the
\* prompt in the main document or in the first iframe, run() returns failure
\* with the not-found-or-not-clickable message.
C10_NoClickPromptPresent ==
    ( /\ pc \in {"finally", "log"}
      /\ clicks = <<>>
      /\ ver.main = "present" \/ ver.frame = "present" )
    => result = [success |-> FALSE, msg |-> "button_not_found_or_not_clickable"]

C10_Witness ==
    /\ pc = "log"
    /\ probe.main.prompt = "absent"
    /\ probe.frame.prompt = "absent"
    /\ ver = [main |-> "absent", frame |-> "present"]
    /\ result = [success |-> FALSE, msg |-> "button_not_found_or_not_clickable"]

\* C11: after a click and the settle wait, a verification that still meets
\* the prompt in the main document makes run() return failure with the
\* button-still-present message.
C11_ClickedPromptStillPresent ==
    ( /\ pc \in {"finally", "log"}
      /\ clicks # <<>>
      /\ InSteps("settle")
      /\ ver.main = "present" )
    => result = [success |-> FALSE, msg |-> "button_still_present"]

C11_Witness ==
    /\ pc = "log"
    /\ clicks = <<"main">>
    /\ InSteps("settle")
    /\ ver.main = "present"
    /\ result = [success |-> FALSE, msg |-> "button_still_present"]

\* C12: once setup_driver has succeeded nothing leaves run() as an
\* exception: a missing URL, a navigation error, a wake-up failure and an
\* exception out of the verification all end as a (False, message) outcome;
\* the process terminates only when setup_driver itself raised.
C12_FailuresBecomeOutcomes ==
    /\ setup = "ok" => pc # "terminated"
    /\ pc = "terminated" =>
          (setup \in {"chrome_failed", "script_failed"} /\ result = NoResult)
    /\ pc \in {"finally", "log"} =>
          /\ result # NoResult
          /\ app_url = "" =>
                result = [success |-> FALSE, msg |-> "url_not_configured"]
          /\ (InSteps("get") /\ ~InSteps("find_main")) =>
                result = [success |-> FALSE, msg |-> "navigation_error"]
          /\ woken = "raised" =>
                result = [success |-> FALSE, msg |-> "webdriver_error"]
          /\ woken = "false" => ~result.success

C12_Witness ==
    /\ pc = "log"
    /\ setup = "ok"
    /\ woken = "raised"
    /\ result = [success |-> FALSE, msg |-> "webdriver_error"]

\* C13: the process does not start with an attempt, and every attempt is
\* entered from a sleep of the same cycle that lasted until the next run
\* computed from the clock read in that cycle; after an attempt the loop
\* reads the clock again before anything else.
C13_SleepBeforeEveryAttempt ==
    /\ pc = "loop"
    /\ [][ /\ pc' = "main" =>
                /\ pc = "sleep"
                /\ clock = now
                /\ next_run = NextRun(now)
                /\ wait_seconds = next_run - now
                /\ clock' >= next_run
           /\ pc' = "wakeup" => pc = "main"
           /\ pc = "log" => pc' = "loop"
           /\ pc = "loop" => (pc' = "sleep" /\ now' = clock)
         ]_vars

C13_Witness ==
    /\ pc = "main"
    /\ logged # NoResult
    /\ now > SecondsPerDay
    /\ clock >= next_run

\* C14: is_app_woken_up returns True exactly when its checks met the prompt
\* absent in the main document and either no iframe or the prompt absent in
\* the first iframe; it returns False when it met the prompt in the main
\* document or in the iframe; and it looks for the iframe only after the
\* main document was found free of the prompt.
C14_VerificationResult ==
    /\ pc = "verdict" => woken \in {"true", "false"}
    /\ woken \in {"true", "false"} =>
          /\ woken = "true" <=>
                (ver.main = "absent" /\ ver.frame \in {"absent", "noframe"})
          /\ (ver.main = "present" \/ ver.frame = "present") => woken = "false"
    /\ ver.frame # "unchecked" => ver.main = "absent"
    /\ pc \in {"verify_iframe", "verify_frame"} => ver.main = "absent"

C14_Witness ==
    /\ pc = "verdict"
    /\ woken = "false"
    /\ ver = [main |-> "absent", frame |-> "present"]

\* C15: whenever is_app_woken_up is over, by a return of True or False or by
\* an exception out of one of its checks, the driver is switched to the main
\* document; it is so from the first statement of the function on, until
\* the function itself switches into the iframe.
C15_VerificationRestoresContext ==
    /\ pc = "verify_iframe" => context = "main"
    /\ pc = "verdict" => context = "main"
    /\ (pc \in {"finally", "log"} /\ InSteps("verify_main")) => context = "main"

C15_Witness ==
    /\ pc = "verdict"
    /\ InSteps("enter_frame")
    /\ InSteps("verify_frame")
    /\ ver.frame = "error"
    /\ context = "main"

\* C16: neither find_and_click_button nor is_app_woken_up raises to
\* wakeup_app: an unexpected exception in the click step or in any check of
\* the verification becomes a False result of that step, so wakeup_app goes
\* on to the statement after the call.
C16_StepsNeverRaise ==
    /\ woken # "raised"
    /\ (pc \in {"finally", "log"} /\ ver.main = "error") => InSteps("verdict")
    /\ (pc \in {"finally", "log"} /\ InSteps("find_main")) => InSteps("verify_main")

StepIndex(name) == CHOOSE i \in 1..Len(steps) : steps[i] = name

\* C17: within an attempt the post-click settle wait is taken if and only if
\* a click succeeded; it lasts POST_CLICK_WAIT_TIME and is over before the
\* verification starts; without a click the verification starts with no
\* such wait.
C17_SettleWaitIffClicked ==
    /\ [](InSteps("settle") => (click_success /\ clicks # <<>>))
    /\ [](pc = "verify_main" => (InSteps("settle") <=> clicks # <<>>))
    /\ [](InSteps("verify_main") =>
            /\ InSteps("settle") <=> clicks # <<>>
            /\ InSteps("settle") => StepIndex("settle") < StepIndex("verify_main"))
    /\ [][pc = "settle" =>
            /\ clock' = clock + POST_CLICK_WAIT_TIME
            /\ pc' = "verify_main"
            /\ steps' = Append(steps, "settle")]_vars

C17_Witness ==
    /\ pc = "verify_iframe"
    /\ clicks = <<"frame">>
    /\ InSteps("settle")
    /\ StepIndex("settle") < StepIndex("verify_main")

\* C18: within an attempt button.click() is issued at most once: after a
\* click in the main document the iframe is not searched, and no click is
\* issued from the settle wait on, during or after the verification.
C18_AtMostOneClick ==
    /\ [](Len(clicks) <= 1)
    /\ [](clicks = <<"main">> => (probe.frame = NoProbe /\ ~InSteps("find_frame")))
    /\ [][(pc \in {"settle", "verify_main", "verify_iframe", "verify_frame",
                   "verdict", "finally"}) => clicks' = clicks]_vars

C18_Witness ==
    /\ pc = "log"
    /\ clicks = <<"main">>
    /\ InSteps("verify_frame")

\* C19: when setup_driver never fails and every blocking call returns, the
\* scheduler never leaves its loop, attempts are started again and again for
\* ever, and every started attempt ends with an outcome that main() logs
\* before the loop is entered again.
C19_AttemptsForever ==
    [](setup \notin {"chrome_failed", "script_failed"}) =>
        /\ [](pc # "terminated")
        /\ []<>(pc = "wakeup")
        /\ (pc = "wakeup") ~> (pc = "loop" /\ logged # NoResult)

C19_Witness ==
    /\ pc = "wakeup"
    /\ setup = "ok"
    /\ logged # NoResult
    /\ now < SecondsPerDay
====
